---------------------------- MODULE Spec2Model ----------------------------
(***************************************************************************)
(* Model of crates/next-core/src/router.rs: one call of route(), the       *)
(* sandbox reply it receives, and the serde decoding of that reply into    *)
(* RouterIncomingMessage and then RouterResult.                            *)
(***************************************************************************)
EXTENDS Integers, Sequences, FiniteSets, TLC

(***************************************************************************)
(* Bounds of the model.                                                    *)
(***************************************************************************)
\* longest list of header lines in a generated reply
MaxHeaders == 2
\* longest body (in bytes) in a generated reply
MaxBody == 2
\* longest list of page extensions of the project's configuration
MaxExtensions == 2

\* widths of the integer fields (status_code: u16, body: Vec<u8>)
U16Bits == 16
U8Bits == 8

SeqsUpTo(S, n) == UNION {[1..m -> S] : m \in 0..n}

(***************************************************************************)
(* JSON documents.  A value is a record whose field k names its kind.      *)
(* An object is a function from its keys to values (keys are unique).      *)
(***************************************************************************)
JNull == [k |-> "null"]
JNum(n) == [k |-> "num", n |-> n]
JStr(s) == [k |-> "str", s |-> s]
JArr(a) == [k |-> "arr", a |-> a]
JObj(o) == [k |-> "obj", o |-> o]
\* a text that is not JSON at all
NotJson(s) == [k |-> "invalid", t |-> s]

Err == [ok |-> FALSE]
Ok(v) == [ok |-> TRUE, v |-> v]

(***************************************************************************)
(* serde Deserialize of the payload types, as derived (lines 62-87).       *)
(* A derived struct is read from a map by field name (unknown keys are     *)
(* ignored, a missing key is an error) or from a sequence by position      *)
(* (exactly as many elements as fields).                                   *)
(***************************************************************************)
StructField(c, name, pos, n) ==
    IF c.k = "obj"
    THEN IF name \in DOMAIN c.o THEN Ok(c.o[name]) ELSE Err
    ELSE IF c.k = "arr" /\ Len(c.a) = n THEN Ok(c.a[pos]) ELSE Err

DeString(c) == IF c.k = "str" THEN Ok(c.s) ELSE Err

DeUnsigned(c, bits) ==
    IF c.k = "num" /\ c.n >= 0 /\ c.n < 2 ^ bits THEN Ok(c.n) ELSE Err

DeU16(c) == DeUnsigned(c, U16Bits)
DeU8(c) == DeUnsigned(c, U8Bits)

\* variant: the elements are collected in reverse order
DeVecString_Reversed(c) ==
    IF c.k = "arr" /\ \A i \in 1..Len(c.a) : DeString(c.a[i]).ok
    THEN Ok([i \in 1..Len(c.a) |-> DeString(c.a[Len(c.a) + 1 - i]).v])
    ELSE Err

\* Vec<String>: a sequence whose every element is a string, in order
DeVecString(c) ==
    IF c.k = "arr" /\ \A i \in 1..Len(c.a) : DeString(c.a[i]).ok
    THEN Ok([i \in 1..Len(c.a) |-> DeString(c.a[i]).v])
    ELSE Err

\* Vec<u8>: a sequence whose every element is a u8, in order
DeVecU8(c) ==
    IF c.k = "arr" /\ \A i \in 1..Len(c.a) : DeU8(c.a[i]).ok
    THEN Ok([i \in 1..Len(c.a) |-> DeU8(c.a[i]).v])
    ELSE Err

\* struct RewriteResponse { url, headers }, rename_all = "camelCase"
RewriteResponse(c) ==
    LET u == StructField(c, "url", 1, 2)
        h == StructField(c, "headers", 2, 2)
    IN  IF u.ok /\ h.ok /\ DeString(u.v).ok /\ DeVecString(h.v).ok
        THEN Ok([url |-> DeString(u.v).v, headers |-> DeVecString(h.v).v])
        ELSE Err

\* variant: rename_all = "camelCase" is missing, the key is status_code
MiddlewareHeadersResponse_SnakeCase(c) ==
    LET s == StructField(c, "status_code", 1, 2)
        h == StructField(c, "headers", 2, 2)
    IN  IF s.ok /\ h.ok /\ DeU16(s.v).ok /\ DeVecString(h.v).ok
        THEN Ok([status_code |-> DeU16(s.v).v, headers |-> DeVecString(h.v).v])
        ELSE Err

\* struct MiddlewareHeadersResponse { status_code, headers }, camelCase
MiddlewareHeadersResponse(c) ==
    LET s == StructField(c, "statusCode", 1, 2)
        h == StructField(c, "headers", 2, 2)
    IN  IF s.ok /\ h.ok /\ DeU16(s.v).ok /\ DeVecString(h.v).ok
        THEN Ok([status_code |-> DeU16(s.v).v, headers |-> DeVecString(h.v).v])
        ELSE Err

\* struct MiddlewareBodyResponse(pub Vec<u8>)
MiddlewareBodyResponse(c) == DeVecU8(c)

\* struct FullMiddlewareResponse { headers, body }
FullMiddlewareResponse(c) ==
    LET h == StructField(c, "headers", 1, 2)
        b == StructField(c, "body", 2, 2)
    IN  IF h.ok /\ b.ok /\ MiddlewareHeadersResponse(h.v).ok /\ DeVecU8(b.v).ok
        THEN Ok([headers |-> MiddlewareHeadersResponse(h.v).v,
                 body |-> DeVecU8(b.v).v])
        ELSE Err

\* turbopack_node::StructuredError: the diagnostic object, whose shape is
\* owned by the evaluation engine; every object is taken as a diagnostic.
StructuredError(c) == IF c.k = "obj" THEN Ok("diagnostic") ELSE Err

(***************************************************************************)
(* enum RouterIncomingMessage, #[serde(tag = "type", rename_all =          *)
(* "kebab-case")] (lines 89-109).  The tag is read from the key "type" of  *)
(* a map, or is the first element of a sequence; the rest is the content   *)
(* of the variant.  A struct variant { data } reads its field from the     *)
(* content; the newtype variant Error reads StructuredError from the       *)
(* content itself.  For a map the content is kept with its "type" entry:  *)
(* no variant has a field of that name, and unknown keys are ignored.      *)
(***************************************************************************)
VariantTags ==
    {"rewrite", "middleware-headers", "middleware-body", "full-middleware",
     "error"}

TaggedContent(j) ==
    IF j.k = "obj"
    THEN IF "type" \in DOMAIN j.o
         THEN Ok([tag |-> j.o["type"], content |-> j])
         ELSE Err
    ELSE IF j.k = "arr" /\ Len(j.a) >= 1
         THEN Ok([tag |-> j.a[1], content |-> JArr(Tail(j.a))])
         ELSE Err

VariantData(content) == StructField(content, "data", 1, 1)

\* variant: the enum has no Error variant
DeVariant_NoError(tag, content) ==
    LET d == VariantData(content)
    IN  CASE tag = "rewrite" ->
               IF d.ok /\ RewriteResponse(d.v).ok
               THEN Ok([variant |-> "Rewrite", data |-> RewriteResponse(d.v).v])
               ELSE Err
          [] tag = "middleware-headers" ->
               IF d.ok /\ MiddlewareHeadersResponse(d.v).ok
               THEN Ok([variant |-> "MiddlewareHeaders",
                        data |-> MiddlewareHeadersResponse(d.v).v])
               ELSE Err
          [] tag = "middleware-body" ->
               IF d.ok /\ MiddlewareBodyResponse(d.v).ok
               THEN Ok([variant |-> "MiddlewareBody",
                        data |-> MiddlewareBodyResponse(d.v).v])
               ELSE Err
          [] tag = "full-middleware" ->
               IF d.ok /\ FullMiddlewareResponse(d.v).ok
               THEN Ok([variant |-> "FullMiddleware",
                        data |-> FullMiddlewareResponse(d.v).v])
               ELSE Err
          [] OTHER -> Err

DeVariant(tag, content) ==
    LET d == VariantData(content)
    IN  CASE tag = "rewrite" ->
               IF d.ok /\ RewriteResponse(d.v).ok
               THEN Ok([variant |-> "Rewrite", data |-> RewriteResponse(d.v).v])
               ELSE Err
          [] tag = "middleware-headers" ->
               IF d.ok /\ MiddlewareHeadersResponse(d.v).ok
               THEN Ok([variant |-> "MiddlewareHeaders",
                        data |-> MiddlewareHeadersResponse(d.v).v])
               ELSE Err
          [] tag = "middleware-body" ->
               IF d.ok /\ MiddlewareBodyResponse(d.v).ok
               THEN Ok([variant |-> "MiddlewareBody",
                        data |-> MiddlewareBodyResponse(d.v).v])
               ELSE Err
          [] tag = "full-middleware" ->
               IF d.ok /\ FullMiddlewareResponse(d.v).ok
               THEN Ok([variant |-> "FullMiddleware",
                        data |-> FullMiddlewareResponse(d.v).v])
               ELSE Err
          [] tag = "error" ->
               IF StructuredError(content).ok
               THEN Ok([variant |-> "Error"])
               ELSE Err
          [] OTHER -> Err

\* variant: a #[serde(other)] catch-all turns an unknown tag into Error
RouterIncomingMessage_Other(j) ==
    LET t == TaggedContent(j)
    IN  IF t.ok /\ t.v.tag.k = "str"
        THEN IF t.v.tag.s \in VariantTags
             THEN DeVariant(t.v.tag.s, t.v.content)
             ELSE Ok([variant |-> "Error"])
        ELSE Err

RouterIncomingMessage(j) ==
    LET t == TaggedContent(j)
    IN  IF t.ok /\ t.v.tag.k = "str" /\ t.v.tag.s \in VariantTags
        THEN DeVariant(t.v.tag.s, t.v.content)
        ELSE Err

\* parse_json_rope_with_source_context::<RouterIncomingMessage>(val)
parse_json_rope_with_source_context(val) ==
    IF val.k = "invalid" THEN Err ELSE RouterIncomingMessage(val)

(***************************************************************************)
(* enum RouterResult and impl From<RouterIncomingMessage> (lines 111-127). *)
(***************************************************************************)
RouterResultError == [variant |-> "Error"]

\* variant: the catch-all arm forwards the variant it was given
RouterResultFrom_Forward(value) ==
    CASE value.variant = "Rewrite" ->
           [variant |-> "Rewrite", data |-> value.data]
      [] value.variant = "FullMiddleware" ->
           [variant |-> "FullMiddleware", data |-> value.data]
      [] OTHER -> [variant |-> value.variant]

RouterResultFrom(value) ==
    CASE value.variant = "Rewrite" ->
           [variant |-> "Rewrite", data |-> value.data]
      [] value.variant = "FullMiddleware" ->
           [variant |-> "FullMiddleware", data |-> value.data]
      [] OTHER -> RouterResultError

(***************************************************************************)
(* The replies the sandbox can produce: texts that are not JSON, scalars,  *)
(* objects and arrays, with and without the key "type", with payloads of   *)
(* every message kind, well shaped and not.                                *)
(***************************************************************************)
Urls == {"/foo", "/bar"}
HeaderLines == {"x-test:1", "set-cookie:a=b"}
StatusCodes == {200, 404}
BodyBytes == {72, 105}

HeaderLists == SeqsUpTo(HeaderLines, MaxHeaders)
Bodies == SeqsUpTo(BodyBytes, MaxBody)

JStrs(l) == JArr([i \in 1..Len(l) |-> JStr(l[i])])
JNums(l) == JArr([i \in 1..Len(l) |-> JNum(l[i])])

RewriteData(u, h) == JObj([url |-> JStr(u), headers |-> JStrs(h)])
HeadersData(s, h) == JObj([statusCode |-> JNum(s), headers |-> JStrs(h)])
BodyData(b) == JNums(b)
FullData(s, h, b) == JObj([headers |-> HeadersData(s, h), body |-> BodyData(b)])

RewriteDatas == {RewriteData(u, h) : u \in Urls, h \in HeaderLists}
HeadersDatas == {HeadersData(s, h) : s \in StatusCodes, h \in HeaderLists}
BodyDatas == {BodyData(b) : b \in Bodies}
FullDatas ==
    {FullData(s, h, b) : s \in StatusCodes, h \in HeaderLists, b \in Bodies}

\* payloads that have the named-field shape of no message kind
OddDatas ==
    { JNull, JNum(5), JStr("/foo"),
      JObj([url |-> JStr("/foo")]),
      JObj([headers |-> JStrs(<<"x-test:1">>)]),
      JObj([url |-> JNum(1), headers |-> JStrs(<<>>)]),
      JObj([url |-> JStr("/foo"), headers |-> JNums(<<1>>)]),
      JObj([url |-> JStr("/foo"), headers |-> JStr("x-test:1")]),
      JObj([statusCode |-> JNum(2 ^ U16Bits), headers |-> JStrs(<<>>)]),
      JObj([statusCode |-> JNum(0 - 1), headers |-> JStrs(<<>>)]),
      JObj([statusCode |-> JStr("200"), headers |-> JStrs(<<>>)]),
      JObj([status_code |-> JNum(200), headers |-> JStrs(<<>>)]),
      JObj([statusCode |-> JNum(200)]),
      JNums(<<2 ^ U8Bits>>),
      JNums(<<72, 0 - 1>>),
      JArr(<<JStr("H")>>),
      JObj([headers |-> HeadersData(200, <<>>)]),
      JObj([body |-> JNums(<<72, 105>>)]),
      JObj([headers |-> HeadersData(200, <<>>), body |-> JNums(<<2 ^ U8Bits>>)]),
      JObj([headers |-> JObj([statusCode |-> JNum(2 ^ U16Bits),
                              headers |-> JStrs(<<>>)]),
            body |-> JNums(<<>>)]),
      JObj([headers |-> JStrs(<<>>), body |-> JNums(<<>>)]),
      JObj([name |-> JStr("Error"), message |-> JStr("boom")]),
      \* positional forms of the payload structs
      JArr(<<JStr("/foo"), JStrs(<<"x-test:1">>)>>),
      JArr(<<JNum(200), JStrs(<<>>)>>),
      JArr(<<JArr(<<JNum(200), JStrs(<<>>)>>), JNums(<<72, 105>>)>>),
      JArr(<<JStr("/foo"), JStrs(<<>>), JNull>>) }

Datas == RewriteDatas \cup HeadersDatas \cup BodyDatas \cup FullDatas \cup OddDatas

\* values found under "type": the five tags, unknown tags, a non-string
TagValues ==
    {JStr(t) : t \in VariantTags}
        \cup {JStr("redirect"), JStr("Rewrite"), JStr("middleware_body"), JNum(0)}

ObjectReplies ==
    {JObj([type |-> t, data |-> d]) : t \in TagValues, d \in Datas}
        \cup {JObj([type |-> t]) : t \in TagValues}
        \cup {JObj([data |-> d]) : d \in Datas}
        \cup {JObj([type |-> t, data |-> d, extra |-> JNull]) :
                 t \in TagValues, d \in OddDatas}
        \cup {JObj([type |-> JStr("error"), name |-> JStr("Error"),
                    message |-> JStr("boom"), stack |-> JArr(<<>>)])}

ArrayReplies ==
    {JArr(<<t, d>>) : t \in TagValues, d \in Datas}
        \cup {JArr(<<t>>) : t \in TagValues}
        \cup {JArr(<<t, d, JNull>>) : t \in TagValues, d \in OddDatas}
        \cup {JArr(<<>>)}

ScalarReplies == {JNull, JNum(0), JStr("rewrite"), JStr("error")}

InvalidReplies == {NotJson(""), NotJson("{\"type\":"), NotJson("undefined")}

Replies == ObjectReplies \cup ArrayReplies \cup ScalarReplies \cup InvalidReplies


(***************************************************************************)
(* The inputs of one call: the request (struct RouterRequest, lines 52-60) *)
(* and the project root of the execution context, which either lives on a  *)
(* disk file system or has no disk path.                                   *)
(***************************************************************************)
Methods == {"GET", "POST"}
Pathnames == {"/", "/foo"}
Requests == [method : Methods, pathname : Pathnames]

ProjectRoots ==
    {[fs |-> "disk", sys |-> "/app"], [fs |-> "disk", sys |-> "/srv/site"],
     [fs |-> "virtual"]}

None == [some |-> FALSE]
Some(v) == [some |-> TRUE, v |-> v]

\* serde_json::value::to_value(&RouterRequest), rename_all = "camelCase"
to_value(r) ==
    JObj([method |-> JStr(r.method), pathname |-> JStr(r.pathname),
          query |-> JObj(<<>>), headers |-> JObj(<<>>)])

\* turbo_tasks_fs::to_sys_path: the on-disk path of a path, if it has one
to_sys_path(root) == IF root.fs = "disk" THEN Some(root.sys) ELSE None

\* enum JavaScriptValue, as matched in lines 218-227
JavaScriptValues ==
    {[kind |-> "Value", val |-> t] : t \in Replies}
        \cup {[kind |-> "Error"], [kind |-> "Stream"]}

NoValue == [kind |-> "none"]
NoResult == [variant |-> "none"]

(***************************************************************************)
(* The project: the files present in the project root and the page         *)
(* extensions of its configuration; the functions that list and locate     *)
(* the configuration files (lines 32-50, 129-153).                         *)
(***************************************************************************)
Extensions == {"js", "ts"}
ExtensionLists == SeqsUpTo(Extensions, MaxExtensions)

\* variant: the candidates are listed in the other order
next_configs_JsFirst == <<"next.config.js", "next.config.mjs">>

\* fn next_configs() -> StringsVc
next_configs == <<"next.config.mjs", "next.config.js">>

\* variant: the nesting is inverted, for each extension both prefixes
middleware_files_ByExtension(extensions) ==
    [i \in 1..(2 * Len(extensions)) |->
        (IF i % 2 = 1 THEN "middleware." ELSE "src/middleware.")
            \o extensions[(i + 1) \div 2]]

\* fn middleware_files(page_extensions): for each prefix in turn, the prefix
\* followed by each extension in turn
middleware_files(extensions) ==
    LET with(f) == [i \in 1..Len(extensions) |-> f \o extensions[i]]
    IN  with("middleware.") \o with("src/middleware.")

\* the files a project may have in its root
ProjectFiles ==
    {"next.config.mjs", "next.config.js"}
        \cup {"middleware." \o e : e \in Extensions}
        \cup {"src/middleware." \o e : e \in Extensions}

NotFound == [found |-> FALSE]
Found(path) == [found |-> TRUE, path |-> path]

\* turbopack_core::resolve::find_context_file: the first name of the list,
\* in list order, that exists in the directory
find_context_file(present, names) ==
    IF \E i \in 1..Len(names) : names[i] \in present
    THEN Found(names[CHOOSE i \in 1..Len(names) :
                        /\ names[i] \in present
                        /\ \A j \in 1..(i - 1) : names[j] \notin present])
    ELSE NotFound

\* EcmascriptModuleAssetVc::new(SourceAssetVc::new(path), .., Typescript, ..)
\*     .as_ecmascript_chunk_placeable()
ConfigChunk(path) == [source |-> path, ty |-> "Typescript"]

\* the value of extra_config for a result of find_context_file (lines 136-152)
extra_config(find_config_result) ==
    IF find_config_result.found
    THEN <<ConfigChunk(find_config_result.path)>>
    ELSE <<>>

(***************************************************************************)
(* The task engine.  The functions marked #[turbo_tasks::function] are     *)
(* memoized: a call with the arguments of an earlier call shares the task  *)
(* of that call, it does not run the function again.                       *)
(***************************************************************************)
\* the functions of router.rs, with the arguments they are called with here
TaskKeys ==
    {"route", "route_executor", "extra_configs", "next_configs",
     "extra_config(next_configs)", "middleware_files",
     "extra_config(middleware_files)"}

\* variant: route() is a plain async fn, not a task function
Memoized_NotRoute == TaskKeys \ {"route"}

\* those marked #[turbo_tasks::function] (lines 32, 42, 129, 155, 170, 182)
Memoized == TaskKeys

\* the two callers of route(), which pass the same arguments
Callers == {1, 2}
CallerIdle == [state |-> "idle", outcome |-> "pending", returned |-> NoResult]

\* the extra_configs task before it is called
ExtraConfigsNone ==
    [pc |-> "none", find_next_config |-> None, next_config |-> None,
     middleware_files |-> None, find_middleware_config |-> None,
     middleware_config |-> None, value |-> None, error |-> "none"]

VARIABLES
    pc,            \* position of the call inside route()
    request,       \* the RouterRequest of the call
    project_root,  \* execution_context.project_root
    dir,           \* the disk path bound by the let-else of line 199
    evaluate_calls,\* calls of evaluate() made so far, with their arguments
    result,        \* the JavaScriptValue evaluate() resolved to
    parse_calls,   \* number of JSON decodes performed
    outcome,       \* "pending", "returned", "failed" or "panicked"
    error,         \* the step whose Err ended the call, if one did
    returned,      \* the RouterResult returned, if any
    files,         \* the files present in the project root
    page_extensions, \* next_config.page_extensions()
    router_asset,  \* the route_executor task: "none", "scheduled", "done"
    extra_configs, \* the extra_configs task: its position and its values
    executions,    \* how many times the body of each function was started
    callers        \* what each caller of route() has called and received

\* the project state, which route() only reads
project == <<files, page_extensions>>
\* the tasks route() creates in lines 194 and 196
tasks == <<router_asset, extra_configs, executions>>

vars ==
    <<pc, request, project_root, dir, evaluate_calls, result, parse_calls,
      outcome, error, returned, files, page_extensions, router_asset,
      extra_configs, executions, callers>>

\* the body of the functions ks is started
Started(ks) ==
    executions' = [k \in TaskKeys |->
                      IF k \in ks THEN executions[k] + 1 ELSE executions[k]]

\* a call of the function k whose task is, or is not, already there: a
\* memoized function is run for the first call only
Runs(k, called) == k \notin Memoized \/ ~called

Init ==
    /\ pc = "execution_context"
    /\ request \in Requests
    /\ project_root \in ProjectRoots
    /\ dir = None
    /\ evaluate_calls = <<>>
    /\ result = NoValue
    /\ parse_calls = 0
    /\ outcome = "pending"
    /\ error = "none"
    /\ returned = NoResult
    /\ files = {"next.config.js", "middleware.ts"}
    /\ page_extensions = <<"js", "ts">>
    /\ router_asset = "none"
    /\ extra_configs = ExtraConfigsNone
    /\ executions = [k \in TaskKeys |-> IF k = "route" THEN 1 ELSE 0]
    /\ callers = [c \in Callers |->
                     IF c = 1 THEN [CallerIdle EXCEPT !.state = "waiting"]
                     ELSE CallerIdle]

\* an Err leaves route() through `?` or bail!
Fail(step) ==
    /\ pc' = "done"
    /\ outcome' = "failed"
    /\ error' = step
    /\ returned' = NoResult

\* Ok(value.cell())
Return(value) ==
    /\ pc' = "done"
    /\ outcome' = "returned"
    /\ returned' = value
    /\ UNCHANGED error

\* lines 188-196: execution_context.await?, then the handles of the project
\* path, the context, the router asset and the extra configs are created
AwaitExecutionContext ==
    /\ pc = "execution_context"
    /\ \E ok \in BOOLEAN :
          IF ok
          THEN /\ pc' = "request"
               /\ router_asset' =
                     IF Runs("route_executor", router_asset # "none")
                     THEN "scheduled" ELSE router_asset
               /\ extra_configs' =
                     IF Runs("extra_configs", extra_configs.pc # "none")
                     THEN [ExtraConfigsNone EXCEPT !.pc = "next_config"]
                     ELSE extra_configs
               /\ UNCHANGED executions
               /\ UNCHANGED <<outcome, error, returned>>
          ELSE /\ Fail("execution_context.await")
               /\ UNCHANGED tasks
    /\ UNCHANGED <<request, project_root, dir, evaluate_calls, result,
                   parse_calls>>
    /\ UNCHANGED <<project, callers>>

\* line 198: request.await?, serde_json::value::to_value(..)?
SerializeRequest ==
    /\ pc = "request"
    /\ \E ok \in BOOLEAN :
          IF ok
          THEN pc' = "to_sys_path" /\ UNCHANGED <<outcome, error, returned>>
          ELSE Fail("request")
    /\ UNCHANGED <<request, project_root, dir, evaluate_calls, result,
                   parse_calls>>
    /\ UNCHANGED <<project, tasks, callers>>

\* variant: a root without a disk path is passed on as the empty path
ToSysPath_NoBail ==
    /\ pc = "to_sys_path"
    /\ \/ /\ dir' = IF to_sys_path(project_root).some
                     THEN to_sys_path(project_root)
                     ELSE Some("")
          /\ pc' = "evaluate"
          /\ UNCHANGED <<outcome, error, returned>>
       \/ /\ Fail("to_sys_path.await")
          /\ UNCHANGED dir
    /\ UNCHANGED <<request, project_root, evaluate_calls, result, parse_calls>>
    /\ UNCHANGED <<project, tasks, callers>>

\* lines 199-201: let Some(dir) = to_sys_path(project_root).await? else bail!
ToSysPath ==
    /\ pc = "to_sys_path"
    /\ \/ /\ to_sys_path(project_root).some
          /\ dir' = to_sys_path(project_root)
          /\ pc' = "evaluate"
          /\ UNCHANGED <<outcome, error, returned>>
       \/ /\ ~to_sys_path(project_root).some
          /\ Fail("Next.js requires a disk path to check for valid routes")
          /\ UNCHANGED dir
       \/ /\ Fail("to_sys_path.await")
          /\ UNCHANGED dir
    /\ UNCHANGED <<request, project_root, evaluate_calls, result, parse_calls>>
    /\ UNCHANGED <<project, tasks, callers>>

\* the task handles are passed unresolved
RouterAssetVc == "route_executor(context, project_path)"
ExtraConfigsVc == "extra_configs(context, project_path, page_extensions)"

\* variant: the two positional arguments are passed in the other order
Evaluate_DirFirst ==
    /\ pc = "evaluate"
    /\ evaluate_calls' =
          Append(evaluate_calls,
                 [module_asset |-> RouterAssetVc,
                  cwd |-> project_root,
                  runtime_entries |-> Some(ExtraConfigsVc),
                  args |-> <<JStr(dir.v), to_value(request)>>,
                  debug |-> FALSE])
    /\ pc' = "evaluating"
    /\ UNCHANGED <<request, project_root, dir, result, parse_calls, outcome,
                   error, returned>>
    /\ UNCHANGED <<project, tasks, callers>>

\* lines 202-215: the call evaluate(project_path, router_asset, project_root,
\* project_root, context, .., Some(extra_configs), vec![request, dir], false)
Evaluate ==
    /\ pc = "evaluate"
    /\ evaluate_calls' =
          Append(evaluate_calls,
                 [module_asset |-> RouterAssetVc,
                  cwd |-> project_root,
                  runtime_entries |-> Some(ExtraConfigsVc),
                  args |-> <<to_value(request), JStr(dir.v)>>,
                  debug |-> FALSE])
    /\ pc' = "evaluating"
    /\ UNCHANGED <<request, project_root, dir, result, parse_calls, outcome,
                   error, returned>>
    /\ UNCHANGED <<project, tasks, callers>>

\* turbopack_node::evaluate runs the sandbox once the router module and the
\* extra configs it was handed have been computed
SandboxReady == router_asset = "done" /\ extra_configs.pc = "done"
\* ... and fails when one of them failed
SandboxBlocked == extra_configs.pc = "failed"

\* variant: an Err of evaluate() is folded into RouterResult::Error
EvaluateResolves_ErrIsError(values) ==
    /\ pc = "evaluating"
    /\ \/ /\ SandboxReady
          /\ \E v \in values :
                /\ result' = v
                /\ pc' = "match"
                /\ UNCHANGED <<outcome, error, returned>>
       \/ /\ SandboxReady \/ SandboxBlocked
          /\ Return(RouterResultError)
          /\ UNCHANGED result
    /\ UNCHANGED <<request, project_root, dir, evaluate_calls, parse_calls>>
    /\ UNCHANGED <<project, tasks, callers>>

\* line 216: .await? of the call, for the values the sandbox may resolve to
EvaluateResolves(values) ==
    /\ pc = "evaluating"
    /\ \/ /\ SandboxReady
          /\ \E v \in values :
                /\ result' = v
                /\ pc' = "match"
                /\ UNCHANGED <<outcome, error, returned>>
       \/ /\ SandboxReady \/ SandboxBlocked
          /\ Fail("evaluate.await")
          /\ UNCHANGED result
    /\ UNCHANGED <<request, project_root, dir, evaluate_calls, parse_calls>>
    /\ UNCHANGED <<project, tasks, callers>>

EvaluateAwait == EvaluateResolves(JavaScriptValues)

\* the route() call itself is left alone by the steps of its tasks
RouteUnchanged ==
    UNCHANGED <<pc, request, project_root, dir, evaluate_calls, result,
                parse_calls, outcome, error, returned, callers>>

\* variant: the router module is built only after the extra configs
RouteExecutor_AfterConfigs ==
    /\ router_asset = "scheduled"
    /\ extra_configs.pc \in {"done", "failed"}
    /\ router_asset' = "done"
    /\ Started({"route_executor"})
    /\ UNCHANGED extra_configs
    /\ UNCHANGED project
    /\ RouteUnchanged

\* lines 170-180: fn route_executor, the router module asset
RouteExecutor ==
    /\ router_asset = "scheduled"
    /\ router_asset' = "done"
    /\ Started({"route_executor"})
    /\ UNCHANGED extra_configs
    /\ UNCHANGED project
    /\ RouteUnchanged

\* an Err leaves extra_configs through `?`
ExtraConfigsFail(step) ==
    extra_configs' = [extra_configs EXCEPT !.pc = "failed", !.error = step]

\* variant: the middleware lookup of lines 162-163 is left out
ExtraConfigsNextConfig_Only ==
    /\ extra_configs.pc = "next_config"
    /\ \/ LET found == find_context_file(files, next_configs)
          IN  extra_configs' =
                 [extra_configs EXCEPT
                     !.pc = "done",
                     !.find_next_config = Some(found),
                     !.next_config = Some(extra_config(found)),
                     !.value = Some(extra_config(found))]
       \/ ExtraConfigsFail("extra_config(next_configs).await")
    /\ Started({"extra_configs", "next_configs", "extra_config(next_configs)"})
    /\ UNCHANGED router_asset
    /\ UNCHANGED project
    /\ RouteUnchanged

\* line 161: extra_config(context, project_path, next_configs()).await?
ExtraConfigsNextConfig ==
    /\ extra_configs.pc = "next_config"
    /\ \/ LET found == find_context_file(files, next_configs)
          IN  extra_configs' =
                 [extra_configs EXCEPT
                     !.pc = "middleware_config",
                     !.find_next_config = Some(found),
                     !.next_config = Some(extra_config(found))]
       \/ ExtraConfigsFail("extra_config(next_configs).await")
    /\ Started({"extra_configs", "next_configs", "extra_config(next_configs)"})
    /\ UNCHANGED router_asset
    /\ UNCHANGED project
    /\ RouteUnchanged

\* lines 162-163:
\* extra_config(context, project_path, middleware_files(page_extensions)).await?
ExtraConfigsMiddlewareConfig ==
    /\ extra_configs.pc = "middleware_config"
    /\ \/ LET names == middleware_files(page_extensions)
              found == find_context_file(files, names)
          IN  extra_configs' =
                 [extra_configs EXCEPT
                     !.pc = "concat",
                     !.middleware_files = Some(names),
                     !.find_middleware_config = Some(found),
                     !.middleware_config = Some(extra_config(found))]
       \/ ExtraConfigsFail("extra_config(middleware_files).await")
    /\ Started({"middleware_files", "extra_config(middleware_files)"})
    /\ UNCHANGED router_asset
    /\ UNCHANGED project
    /\ RouteUnchanged

\* variant: the middleware config is put before the next config
ExtraConfigsConcat_MiddlewareFirst ==
    /\ extra_configs.pc = "concat"
    /\ extra_configs' =
          [extra_configs EXCEPT
              !.pc = "done",
              !.value = Some(extra_configs.middleware_config.v
                                \o extra_configs.next_config.v)]
    /\ UNCHANGED <<router_asset, executions>>
    /\ UNCHANGED project
    /\ RouteUnchanged

\* lines 165-167: concat = next_config; concat.extend(middleware_config)
ExtraConfigsConcat ==
    /\ extra_configs.pc = "concat"
    /\ extra_configs' =
          [extra_configs EXCEPT
              !.pc = "done",
              !.value = Some(extra_configs.next_config.v
                                \o extra_configs.middleware_config.v)]
    /\ UNCHANGED <<router_asset, executions>>
    /\ UNCHANGED project
    /\ RouteUnchanged

\* variant: a reply that cannot be decoded makes route() evaluate again
MatchValue_Retry ==
    /\ pc = "match"
    /\ result.kind = "Value"
    /\ parse_calls' = parse_calls + 1
    /\ LET message == parse_json_rope_with_source_context(result.val)
       IN  IF message.ok
           THEN Return(RouterResultFrom(message.v))
           ELSE IF Len(evaluate_calls) < 2
                THEN pc' = "evaluate" /\ UNCHANGED <<outcome, error, returned>>
                ELSE Fail("parse_json_rope_with_source_context")
    /\ UNCHANGED <<request, project_root, dir, evaluate_calls, result>>
    /\ UNCHANGED <<project, tasks, callers>>

\* lines 219-222: JavaScriptValue::Value(val)
MatchValue ==
    /\ pc = "match"
    /\ result.kind = "Value"
    /\ parse_calls' = parse_calls + 1
    /\ LET message == parse_json_rope_with_source_context(result.val)
       IN  IF message.ok
           THEN Return(RouterResultFrom(message.v))
           ELSE Fail("parse_json_rope_with_source_context")
    /\ UNCHANGED <<request, project_root, dir, evaluate_calls, result>>
    /\ UNCHANGED <<project, tasks, callers>>

\* variant: the error sentinel is propagated as an Err
MatchError_Bails ==
    /\ pc = "match"
    /\ result.kind = "Error"
    /\ Fail("evaluate")
    /\ UNCHANGED <<request, project_root, dir, evaluate_calls, result,
                   parse_calls>>
    /\ UNCHANGED <<project, tasks, callers>>

\* line 223: JavaScriptValue::Error
MatchError ==
    /\ pc = "match"
    /\ result.kind = "Error"
    /\ Return(RouterResultError)
    /\ UNCHANGED <<request, project_root, dir, evaluate_calls, result,
                   parse_calls>>
    /\ UNCHANGED <<project, tasks, callers>>

\* variant: a stream is absorbed into RouterResult::Error
MatchStream_AsError ==
    /\ pc = "match"
    /\ result.kind = "Stream"
    /\ Return(RouterResultError)
    /\ UNCHANGED <<request, project_root, dir, evaluate_calls, result,
                   parse_calls>>
    /\ UNCHANGED <<project, tasks, callers>>

\* lines 224-226: JavaScriptValue::Stream(_) => unimplemented!(..)
MatchStream ==
    /\ pc = "match"
    /\ result.kind = "Stream"
    /\ pc' = "done"
    /\ outcome' = "panicked"
    /\ returned' = NoResult
    /\ UNCHANGED error
    /\ UNCHANGED <<request, project_root, dir, evaluate_calls, result,
                   parse_calls>>
    /\ UNCHANGED <<project, tasks, callers>>

Next ==
    \/ AwaitExecutionContext
    \/ SerializeRequest
    \/ ToSysPath
    \/ Evaluate
    \/ EvaluateAwait
    \/ MatchValue
    \/ MatchError
    \/ MatchStream
    \/ RouteExecutor
    \/ ExtraConfigsNextConfig
    \/ ExtraConfigsMiddlewareConfig
    \/ ExtraConfigsConcat

Spec == Init /\ [][Next]_vars

(***************************************************************************)
(* The location of the configuration files alone: the tasks of lines 194   *)
(* and 196, for every set of files and every list of page extensions.      *)
(***************************************************************************)
ConfigInit ==
    /\ pc = "execution_context"
    /\ request = [method |-> "GET", pathname |-> "/"]
    /\ project_root = [fs |-> "disk", sys |-> "/app"]
    /\ dir = None
    /\ evaluate_calls = <<>>
    /\ result = NoValue
    /\ parse_calls = 0
    /\ outcome = "pending"
    /\ error = "none"
    /\ returned = NoResult
    /\ files \in SUBSET ProjectFiles
    /\ page_extensions \in ExtensionLists
    /\ router_asset = "none"
    /\ extra_configs = ExtraConfigsNone
    /\ executions = [k \in TaskKeys |-> IF k = "route" THEN 1 ELSE 0]
    /\ callers = [c \in Callers |->
                     IF c = 1 THEN [CallerIdle EXCEPT !.state = "waiting"]
                     ELSE CallerIdle]

ConfigNext ==
    \/ AwaitExecutionContext
    \/ RouteExecutor
    \/ ExtraConfigsNextConfig
    \/ ExtraConfigsMiddlewareConfig
    \/ ExtraConfigsConcat

ConfigSpec == ConfigInit /\ [][ConfigNext]_vars


(***************************************************************************)
(* Two concurrent callers of route() with the same arguments, the tasks    *)
(* of the call, and a sample of the values the sandbox resolves to.        *)
(***************************************************************************)
SampleReplies ==
    { JObj([type |-> JStr("rewrite"),
            data |-> RewriteData("/foo", <<"x-test:1">>)]),
      JObj([type |-> JStr("full-middleware"),
            data |-> FullData(200, <<>>, <<72, 105>>)]),
      JObj([type |-> JStr("middleware-headers"),
            data |-> HeadersData(200, <<>>)]),
      JObj([type |-> JStr("error"), data |-> JObj([name |-> JStr("Error")])]),
      JObj([type |-> JStr("redirect"), data |-> JNull]),
      NotJson("undefined") }

SampleJavaScriptValues ==
    {[kind |-> "Value", val |-> t] : t \in SampleReplies}
        \cup {[kind |-> "Error"], [kind |-> "Stream"]}

EvaluateAwaitSample == EvaluateResolves(SampleJavaScriptValues)

\* a caller calls route(execution_context, request, next_config): the body
\* of route() is started unless the call shares the task of an earlier call
CallRoute(c) ==
    /\ callers[c].state = "idle"
    /\ callers' = [callers EXCEPT ![c].state = "waiting"]
    /\ IF Runs("route", executions["route"] > 0)
       THEN /\ pc \in {"none", "done"}
            /\ pc' = "execution_context"
            /\ dir' = None
            /\ result' = NoValue
            /\ outcome' = "pending"
            /\ error' = "none"
            /\ returned' = NoResult
            /\ Started({"route"})
       ELSE UNCHANGED <<pc, dir, result, outcome, error, returned, executions>>
    /\ UNCHANGED <<request, project_root, evaluate_calls, parse_calls,
                   router_asset, extra_configs>>
    /\ UNCHANGED project

\* a caller reads the cell of its call once route() has finished
ReadRoute(c) ==
    /\ callers[c].state = "waiting"
    /\ pc = "done"
    /\ callers' = [callers EXCEPT ![c] = [state |-> "resolved",
                                          outcome |-> outcome,
                                          returned |-> returned]]
    /\ UNCHANGED <<pc, request, project_root, dir, evaluate_calls, result,
                   parse_calls, outcome, error, returned>>
    /\ UNCHANGED <<project, tasks>>

TaskFiles ==
    SUBSET {"next.config.mjs", "next.config.js", "middleware.ts",
            "src/middleware.js"}

TaskInit ==
    /\ pc = "none"
    /\ request \in {[method |-> "GET", pathname |-> "/foo"],
                    [method |-> "POST", pathname |-> "/"]}
    /\ project_root \in ProjectRoots
    /\ dir = None
    /\ evaluate_calls = <<>>
    /\ result = NoValue
    /\ parse_calls = 0
    /\ outcome = "pending"
    /\ error = "none"
    /\ returned = NoResult
    /\ files \in TaskFiles
    /\ page_extensions = <<"js", "ts">>
    /\ router_asset = "none"
    /\ extra_configs = ExtraConfigsNone
    /\ executions = [k \in TaskKeys |-> 0]
    /\ callers = [c \in Callers |-> CallerIdle]

TaskNext ==
    \/ \E c \in Callers : CallRoute(c)
    \/ \E c \in Callers : ReadRoute(c)
    \/ AwaitExecutionContext
    \/ SerializeRequest
    \/ ToSysPath
    \/ Evaluate
    \/ EvaluateAwaitSample
    \/ MatchValue
    \/ MatchError
    \/ MatchStream
    \/ RouteExecutor
    \/ ExtraConfigsNextConfig
    \/ ExtraConfigsMiddlewareConfig
    \/ ExtraConfigsConcat

TaskSpec == TaskInit /\ [][TaskNext]_vars

(***************************************************************************)
(* Properties of route().                                                  *)
(***************************************************************************)
ResultVariants == {"Rewrite", "FullMiddleware", "Error"}

Done == pc = "done"
Replied(val) == Done /\ result = [kind |-> "Value", val |-> val]
RepliedObject == Done /\ result.kind = "Value" /\ result.val.k = "obj"
Tagged(tag) ==
    /\ RepliedObject
    /\ "type" \in DOMAIN result.val.o
    /\ result.val.o["type"] = JStr(tag)
ReturnedError == outcome = "returned" /\ returned = RouterResultError
\* the call ended with an Err of the decode step
DecodeFailed ==
    /\ outcome = "failed"
    /\ error = "parse_json_rope_with_source_context"
    /\ returned = NoResult

\* the execution context and the request cell were read without an Err
InputsRead == error \notin {"execution_context.await", "request"}

\* C1 as stated: every finished call of route() whose inputs were read has
\* returned one of the variants Rewrite, FullMiddleware, Error (it never
\* fails and never panics).
C1_AlwaysReturnsVariant ==
    Done /\ InputsRead =>
        outcome = "returned" /\ returned.variant \in ResultVariants

\* C1 as amended: a finished call of route() ended in exactly one of three
\* ways: it returned exactly one of Rewrite, FullMiddleware, Error; it failed
\* with an Err and no result; or it panicked with no result, which happens
\* only when the sandbox resolved to a stream.
C1_OneOutcome ==
    Done =>
        \/ outcome = "returned" /\ returned.variant \in ResultVariants
        \/ outcome = "failed" /\ returned = NoResult /\ error # "none"
        \/ outcome = "panicked" /\ returned = NoResult /\ result.kind = "Stream"

C1_Witness ==
    Done /\ outcome = "returned" /\ returned.variant = "FullMiddleware"

\* C2: when the project root has no disk path, evaluate() is never called
\* and the finished call is a failure.
C2_NoSandboxWithoutDiskPath ==
    ~to_sys_path(project_root).some =>
        /\ evaluate_calls = <<>>
        /\ pc \notin {"evaluate", "evaluating", "match"}
        /\ Done => outcome = "failed" /\ returned = NoResult

C2_Witness ==
    /\ ~to_sys_path(project_root).some
    /\ Done
    /\ error = "Next.js requires a disk path to check for valid routes"

\* C3: when evaluate() resolved to a stream the call panics; no RouterResult
\* is returned.
C3_StreamIsFatal ==
    Done /\ result.kind = "Stream" =>
        outcome = "panicked" /\ returned = NoResult

C3_Witness == Done /\ result.kind = "Stream" /\ outcome = "panicked"

\* C4: when evaluate() resolved to the error sentinel the call returns
\* RouterResult::Error and no JSON decode was performed.
C4_SentinelIsError ==
    Done /\ result.kind = "Error" => ReturnedError /\ parse_calls = 0

C4_Witness == Done /\ result.kind = "Error" /\ ReturnedError

\* C5: a well-formed rewrite reply is returned as Rewrite with the same url
\* and header lines, a well-formed full-middleware reply as FullMiddleware
\* with the same status code, header lines and body bytes, in the same order.
C5_PayloadPreserved ==
    /\ \A u \in Urls, h \in HeaderLists :
          Replied(JObj([type |-> JStr("rewrite"), data |-> RewriteData(u, h)]))
              => /\ outcome = "returned"
                 /\ returned = [variant |-> "Rewrite",
                                data |-> [url |-> u, headers |-> h]]
    /\ \A s \in StatusCodes, h \in HeaderLists, b \in Bodies :
          Replied(JObj([type |-> JStr("full-middleware"),
                        data |-> FullData(s, h, b)]))
              => /\ outcome = "returned"
                 /\ returned =
                       [variant |-> "FullMiddleware",
                        data |-> [headers |-> [status_code |-> s, headers |-> h],
                                  body |-> b]]

C5_Witness ==
    /\ Replied(JObj([type |-> JStr("full-middleware"),
                     data |-> FullData(404, <<"x-test:1", "set-cookie:a=b">>,
                                       <<72, 105>>)]))
    /\ returned.variant = "FullMiddleware"
    /\ returned.data.body = <<72, 105>>

UnknownTag ==
    /\ RepliedObject
    /\ "type" \in DOMAIN result.val.o
    /\ result.val.o["type"].k = "str"
    /\ result.val.o["type"].s \notin VariantTags

ReservedTags == {"middleware-headers", "middleware-body"}

\* C8 as stated: an object reply tagged middleware-headers or middleware-body
\* is returned as RouterResult::Error.
C8_ReservedTagIsError ==
    \A t \in ReservedTags : Tagged(t) => ReturnedError

\* C8 as amended: an object reply tagged middleware-headers whose data is
\* {statusCode, headers}, or tagged middleware-body whose data is a byte
\* array, is returned as RouterResult::Error.
C8_ReservedShapedIsError ==
    /\ \A d \in HeadersDatas :
          Replied(JObj([type |-> JStr("middleware-headers"), data |-> d]))
              => ReturnedError
    /\ \A d \in BodyDatas :
          Replied(JObj([type |-> JStr("middleware-body"), data |-> d]))
              => ReturnedError

C8_Witness ==
    /\ Replied(JObj([type |-> JStr("middleware-headers"),
                     data |-> HeadersData(200, <<"x-test:1">>)]))
    /\ ReturnedError

\* C9: a reply that is not JSON, or is JSON but not an object, ends the call
\* as a failure.
C9_NonObjectFails ==
    Done /\ result.kind = "Value" /\ result.val.k # "obj" => outcome = "failed"

\* the payload shapes of the wire format, by named field
IsStrings(j) == j.k = "arr" /\ \A i \in 1..Len(j.a) : j.a[i].k = "str"
IsUnsigned(j, bits) == j.k = "num" /\ j.n \in 0..(2 ^ bits - 1)
IsBytes(j) == j.k = "arr" /\ \A i \in 1..Len(j.a) : IsUnsigned(j.a[i], U8Bits)
HasField(j, name) == j.k = "obj" /\ name \in DOMAIN j.o
IsRewriteShape(d) ==
    /\ HasField(d, "url") /\ d.o["url"].k = "str"
    /\ HasField(d, "headers") /\ IsStrings(d.o["headers"])
IsHeadersShape(d) ==
    /\ HasField(d, "statusCode") /\ IsUnsigned(d.o["statusCode"], U16Bits)
    /\ HasField(d, "headers") /\ IsStrings(d.o["headers"])
IsFullShape(d) ==
    /\ HasField(d, "headers") /\ IsHeadersShape(d.o["headers"])
    /\ HasField(d, "body") /\ IsBytes(d.o["body"])
PayloadHasShape(tag, j) ==
    \/ tag = "error"
    \/ /\ HasField(j, "data")
       /\ CASE tag = "rewrite" -> IsRewriteShape(j.o["data"])
            [] tag = "middleware-headers" -> IsHeadersShape(j.o["data"])
            [] tag = "middleware-body" -> IsBytes(j.o["data"])
            [] tag = "full-middleware" -> IsFullShape(j.o["data"])

\* C10: an object reply with a recognized tag whose payload does not have
\* the shape of that tag ends the call as a failure.
C10_MisshapenPayloadFails ==
    \A t \in VariantTags :
        Tagged(t) /\ ~PayloadHasShape(t, result.val) => outcome = "failed"


(***************************************************************************)
(* Properties of the location of the configuration files.                  *)
(***************************************************************************)
ConfigLocated == extra_configs.find_next_config.some
MiddlewareListed == extra_configs.middleware_files.some

\* C11: the config file found is the first of next.config.mjs, next.config.js
\* that exists: next.config.mjs whenever it exists, next.config.js when only
\* it exists, and not found when neither exists.
C11_FirstConfigCandidate ==
    ConfigLocated =>
        LET located == extra_configs.find_next_config.v
        IN  /\ "next.config.mjs" \in files
                => located = Found("next.config.mjs")
            /\ "next.config.mjs" \notin files /\ "next.config.js" \in files
                => located = Found("next.config.js")
            /\ "next.config.mjs" \notin files /\ "next.config.js" \notin files
                => located = NotFound

C11_Witness ==
    /\ ConfigLocated
    /\ {"next.config.mjs", "next.config.js"} \subseteq files
    /\ extra_configs.find_next_config.v = Found("next.config.mjs")

\* C12: for page extensions E of length n, middleware_files is a list of 2n
\* names, entry i being "middleware." E[i] and entry n+i "src/middleware."
\* E[i]; for ["js","ts"] it is middleware.js, middleware.ts,
\* src/middleware.js, src/middleware.ts.
C12_MiddlewareCandidates ==
    MiddlewareListed =>
        LET names == extra_configs.middleware_files.v
            n == Len(page_extensions)
        IN  /\ Len(names) = 2 * n
            /\ \A i \in 1..n :
                  /\ names[i] = "middleware." \o page_extensions[i]
                  /\ names[n + i] = "src/middleware." \o page_extensions[i]
            /\ page_extensions = <<"js", "ts">>
                  => names = <<"middleware.js", "middleware.ts",
                               "src/middleware.js", "src/middleware.ts">>

C12_Witness ==
    /\ MiddlewareListed
    /\ page_extensions = <<"js", "ts">>
    /\ Len(extra_configs.middleware_files.v) = 4


(***************************************************************************)
(* Properties of one call and of its tasks.                                *)
(***************************************************************************)
Invoked == evaluate_calls # <<>>
SandboxRan == result # NoValue

\* C13: one call of route() invokes the sandbox at most once, decodes at
\* most once, starts each of its functions at most once, and once it has
\* ended nothing of it changes: no further invocation, decode or outcome.
C13_OneShot ==
    /\ [](/\ Len(evaluate_calls) <= 1
          /\ parse_calls <= 1
          /\ \A k \in TaskKeys : executions[k] <= 1)
    /\ [][Done => /\ pc' = pc
                  /\ evaluate_calls' = evaluate_calls
                  /\ parse_calls' = parse_calls
                  /\ result' = result
                  /\ outcome' = outcome
                  /\ returned' = returned
                  /\ executions'["route"] = executions["route"]]_vars

C13_Witness ==
    /\ Done
    /\ DecodeFailed
    /\ Len(evaluate_calls) = 1
    /\ parse_calls = 1

BothRead == \A c \in Callers : callers[c].state = "resolved"

C16_AuxModuleSet ==
    /\ extra_configs.pc = "done" =>
          LET config == extra_configs.find_next_config.v
              middleware == extra_configs.find_middleware_config.v
              value == extra_configs.value.v
          IN  /\ config.found <=>
                    files \cap {"next.config.mjs", "next.config.js"} # {}
              /\ middleware.found <=>
                    files \cap {"middleware.js", "middleware.ts",
                                "src/middleware.js", "src/middleware.ts"} # {}
              /\ Len(value) <= 2
              /\ value =
                    (IF config.found
                     THEN <<ConfigChunk(config.path)>> ELSE <<>>)
                    \o (IF middleware.found
                        THEN <<ConfigChunk(middleware.path)>> ELSE <<>>)
    /\ extra_configs.pc = "failed" =>
          extra_configs.error \in {"extra_config(next_configs).await",
                                   "extra_config(middleware_files).await"}

C16_Witness ==
    /\ files = {}
    /\ extra_configs.pc = "done"
    /\ extra_configs.value.v = <<>>
    /\ SandboxRan

\* C17: every call of evaluate() has exactly two positional arguments, the
\* JSON of the request and then the disk path of the project root, as a
\* string; the extra configs are passed as the handle of their task and no
\* chunk of them is an argument.
C17_TwoArguments ==
    \A i \in 1..Len(evaluate_calls) :
        LET call == evaluate_calls[i]
        IN  /\ Len(call.args) = 2
            /\ call.args[1].k = "obj"
            /\ DOMAIN call.args[1].o =
                  {"method", "pathname", "query", "headers"}
            /\ call.args[1].o["method"] = JStr(request.method)
            /\ call.args[1].o["pathname"] = JStr(request.pathname)
            /\ project_root.fs = "disk"
            /\ call.args[2] = JStr(project_root.sys)
            /\ call.runtime_entries = Some(ExtraConfigsVc)
            /\ \A j \in 1..Len(call.args), f \in ProjectFiles :
                  /\ call.args[j] # ConfigChunk(f)
                  /\ call.args[j] # JStr(f)

C17_Witness ==
    /\ Invoked
    /\ extra_configs.pc = "done"
    /\ Len(extra_configs.value.v) = 2
    /\ evaluate_calls[1].args[2] = JStr("/srv/site")

\* C18: the build of the router module and the location of the extra
\* configs do not wait for each other: whenever one of them is pending its
\* next step can be taken, whatever the state of the other; and the
\* arguments of evaluate() and the outcome of the call are fixed by the
\* request, the project root and the value the sandbox resolved to.
C18_Independent ==
    /\ router_asset = "scheduled" => ENABLED RouteExecutor
    /\ extra_configs.pc = "next_config" => ENABLED ExtraConfigsNextConfig
    /\ extra_configs.pc = "middleware_config"
          => ENABLED ExtraConfigsMiddlewareConfig
    /\ extra_configs.pc = "concat" => ENABLED ExtraConfigsConcat
    /\ \A i \in 1..Len(evaluate_calls) :
          evaluate_calls[i].args =
              <<to_value(request), JStr(to_sys_path(project_root).v)>>
    /\ Done /\ result.kind = "Value" =>
          LET message == parse_json_rope_with_source_context(result.val)
          IN  IF message.ok
              THEN outcome = "returned" /\ returned = RouterResultFrom(message.v)
              ELSE outcome = "failed"
    /\ Done /\ result.kind = "Error" => ReturnedError
    /\ Done /\ result.kind = "Stream" => outcome = "panicked"

C18_Witness ==
    /\ pc = "evaluating"
    /\ extra_configs.pc = "done"
    /\ router_asset = "scheduled"

\* C19: when evaluate() itself fails the call ends as a failure with no
\* result; RouterResult::Error is returned only when the sandbox resolved
\* to the error sentinel or to a value.
C19_EngineFailurePropagates ==
    /\ Done /\ Invoked /\ ~SandboxRan
          => outcome = "failed" /\ returned = NoResult
    /\ ReturnedError => result.kind \in {"Error", "Value"}

C19_Witness ==
    /\ Done
    /\ Invoked
    /\ ~SandboxRan
    /\ error = "evaluate.await"


=============================================================================
